---- MODULE Spec2Model ----
(***************************************************************************)
(* Delivery engine of the Sentinel integrations: the HTTP POST senders     *)
(* with retry, backoff and per-attempt timeout.                            *)
(*                                                                         *)
(*   relay      sendRelayRequest    integrations/webhook-relay/src/relay.ts *)
(*   discord    sendDiscordWebhook  the retrying sender, copied verbatim   *)
(*              into discord-chat-bridge, discord-server-status,           *)
(*              discord-player-activity and src/src/discord.ts             *)
(*   moderation sendDiscordWebhook  the single-shot sender of              *)
(*              discord-moderation-webhooks (unnamed/part_003)             *)
(*                                                                         *)
(* One record per delivery call holds the locals of the async function,    *)
(* the position it is suspended at, and the observable history of the call *)
(* (POSTs issued, waits taken, outcome of every attempt).                  *)
(*                                                                         *)
(* ctx is the HandlerContext a handler instance was created with, and      *)
(* inbound holds one record per handleWebhook invocation on it.            *)
(***************************************************************************)
EXTENDS Integers, Sequences, FiniteSets, TLC

VARIABLES calls, ctx, inbound

vars == <<calls, ctx, inbound>>

(* ------------------------------ bounds --------------------------------- *)

\* largest maxAttempts value the environment passes
MaxAttemptsBound == 3

(* --------------------------- program constants ------------------------- *)

DefaultMaxAttempts == 3

DefaultBaseDelayMs == 1000

DefaultTimeoutMs == 30000

(* ------------------------------- inputs -------------------------------- *)

Senders == {"relay", "discord", "moderation"}

\* HTTP statuses the remote endpoint answers with: both ends of 2xx, a 3xx,
\* a plain 4xx, 429, both ends of 5xx and a status above the 5xx range
Statuses == {200, 299, 301, 404, 429, 500, 599, 600}

\* response.text() either yields the body or rejects
Texts == {"body", "Unknown error"}

\* what a rejected fetch throws when no timer aborted it: an Error carrying
\* a message, or a value that is not an Error
Faults == {"fetch failed", "not an Error"}

MaxAttemptsValues == 0..MaxAttemptsBound

BaseDelayValues == {0, 1, DefaultBaseDelayMs}

TimeoutValues == {0, DefaultTimeoutMs}

\* an absent optional parameter or field is the empty set, a present one a
\* singleton
Absent == {}

Options == [maxAttempts : {Absent} \cup {{n} : n \in MaxAttemptsValues},
            baseDelayMs : {Absent} \cup {{n} : n \in BaseDelayValues},
            timeoutMs   : {Absent} \cup {{n} : n \in TimeoutValues}]

\* a ?? b
OrDefault(opt, default) == IF opt = Absent THEN default ELSE CHOOSE v \in opt : TRUE

(* ------------------------------ error strings -------------------------- *)

Err(kind, num, text) == [kind |-> kind, num |-> num, text |-> text]

\* let lastError = ''
EmptyError == Err("", 0, "")

\* `HTTP ${response.status}: ${text}`
HttpError(status, text) == Err("HTTP", status, text)

\* `Request timeout (${timeoutMs}ms)`
TimeoutError(timeoutMs) == Err("Request timeout", timeoutMs, "")

\* err instanceof Error ? err.message : 'Unknown error'
ThrownError(fault) ==
  IF fault = "not an Error" THEN Err("Unknown error", 0, "") ELSE Err(fault, 0, "")

(* --------------------------- pure functions ---------------------------- *)

\* response.ok taken for a test of status 200 alone
ResponseOkOnly200(status) == status = 200

\* response.ok
ResponseOk(status) == status >= 200 /\ status <= 299

\* shouldRetry without the rate-limit status
ShouldRetryServerErrorsOnly(status) == status >= 500

ShouldRetry(status) == status = 429 \/ status >= 500

\* the backoff doubling from baseDelayMs itself: baseDelayMs * 2^(attempt-1)
TwiceBackoffDelayFromBase(baseDelayMs, attempt) == 2 * baseDelayMs * 2^(attempt - 1)

\* twice baseDelayMs * Math.pow(2, attempt - 2), so that the half
\* millisecond of an odd baseDelayMs on attempt 1 stays exact
TwiceBackoffDelay(baseDelayMs, attempt) == baseDelayMs * 2^(attempt - 1)

(* ------------------------------ call records --------------------------- *)

NoResult == [success |-> FALSE, error |-> Absent, attempts |-> Absent, statusCode |-> Absent]

Idle ==
  [st |-> "idle", sender |-> "relay",
   maxAttempts |-> 0, baseDelayMs |-> 0, timeoutMs |-> 0,
   attempt |-> 0, lastError |-> EmptyError, lastStatusCode |-> Absent,
   timers |-> {}, result |-> NoResult,
   posts |-> 0, waits |-> <<>>, log |-> <<>>]

\* the return after the loop reporting a status only when the final attempt
\* received a response
ExhaustedStatusOfFinalAttempt(r) ==
  [success |-> FALSE, error |-> {r.lastError}, attempts |-> {r.maxAttempts},
   statusCode |-> IF r.sender = "relay" /\ r.lastError.kind = "HTTP"
                    THEN r.lastStatusCode ELSE Absent]

\* the return statement after the loop
Exhausted(r) ==
  [success |-> FALSE, error |-> {r.lastError}, attempts |-> {r.maxAttempts},
   statusCode |-> IF r.sender = "relay" THEN r.lastStatusCode ELSE Absent]

Return(r, res) == [r EXCEPT !.st = "done", !.result = res]

\* the loop running one attempt too many
LoopHeadOneTooMany(r) ==
  IF r.attempt <= r.maxAttempts + 1
    THEN [r EXCEPT !.st = "fetch", !.posts = @ + 1,
                   !.timers = IF r.sender = "relay" THEN @ \cup {r.attempt} ELSE @]
    ELSE [r EXCEPT !.st = "done",
                   !.result = [success |-> FALSE, error |-> {r.lastError},
                               attempts |-> {r.maxAttempts},
                               statusCode |-> IF r.sender = "relay" THEN r.lastStatusCode
                                                                    ELSE Absent]]

\* the loop condition and the code up to the await of fetch: arm the timeout
\* timer (relay only) and issue the POST
LoopHead(r) ==
  IF r.attempt <= r.maxAttempts
    THEN [r EXCEPT !.st = "fetch", !.posts = @ + 1,
                   !.timers = IF r.sender = "relay" THEN @ \cup {r.attempt} ELSE @]
    ELSE Return(r, Exhausted(r))

NextAttempt(r) == LoopHead([r EXCEPT !.attempt = @ + 1])

\* the tail of the loop body sleeping after the final attempt too
BackoffAfterFinalAttempt(r) ==
  LET delay2 == TwiceBackoffDelay(r.baseDelayMs, r.attempt)
  IN  IF r.attempt <= r.maxAttempts /\ delay2 > 0
        THEN [r EXCEPT !.st = "sleep", !.waits = Append(@, delay2)]
        ELSE NextAttempt(r)

\* the tail of the loop body after a retryable failure
Backoff(r) ==
  IF r.attempt < r.maxAttempts
    THEN LET delay2 == TwiceBackoffDelay(r.baseDelayMs, r.attempt)
         IN  IF delay2 > 0
               THEN [r EXCEPT !.st = "sleep", !.waits = Append(@, delay2)]
               ELSE NextAttempt(r)
    ELSE NextAttempt(r)

\* sendRelayRequest: the defaults of the options and the code up to the
\* first await
RelayBegin(options) ==
  LoopHead([Idle EXCEPT !.sender = "relay",
                        !.maxAttempts = OrDefault(options.maxAttempts, DefaultMaxAttempts),
                        !.baseDelayMs = OrDefault(options.baseDelayMs, DefaultBaseDelayMs),
                        !.timeoutMs = OrDefault(options.timeoutMs, DefaultTimeoutMs),
                        !.attempt = 1])

\* sendDiscordWebhook with retry: it reads no timeoutMs and arms no timer
DiscordBegin(options) ==
  LoopHead([Idle EXCEPT !.sender = "discord",
                        !.maxAttempts = OrDefault(options.maxAttempts, DefaultMaxAttempts),
                        !.baseDelayMs = OrDefault(options.baseDelayMs, DefaultBaseDelayMs),
                        !.attempt = 1])

\* the single-shot sendDiscordWebhook takes no options and has no loop: it
\* issues its one POST
ModerationBegin ==
  [Idle EXCEPT !.sender = "moderation", !.st = "fetch", !.attempt = 1, !.posts = @ + 1]

\* the outcome of one attempt as the remote end and the transport produced
\* it: "response" with its status, or the fault the fetch rejected with
Outcome(kind, status) == [kind |-> kind, status |-> status]

Logged(r, outcome) == [r EXCEPT !.log = Append(@, outcome)]

\* the response path without clearTimeout
RelayResponseKeepsTimer(r, status, text) ==
  LET r1 == [r EXCEPT !.lastStatusCode = {status}]
      r2 == [r1 EXCEPT !.lastError = HttpError(status, text)]
  IN  IF ResponseOk(status)
        THEN Return(r1, [success |-> TRUE, error |-> Absent,
                         attempts |-> {r.attempt}, statusCode |-> {status}])
        ELSE IF ~ShouldRetry(status)
          THEN Return(r2, [success |-> FALSE, error |-> {r2.lastError},
                           attempts |-> {r.attempt}, statusCode |-> {status}])
          ELSE Backoff(r2)

\* sendRelayRequest: fetch resolved with a response
RelayResponse(r, status, text) ==
  LET r1 == [r EXCEPT !.timers = @ \ {r.attempt}, !.lastStatusCode = {status}]
      r2 == [r1 EXCEPT !.lastError = HttpError(status, text)]
  IN  IF ResponseOk(status)
        THEN Return(r1, [success |-> TRUE, error |-> Absent,
                         attempts |-> {r.attempt}, statusCode |-> {status}])
        ELSE IF ~ShouldRetry(status)
          THEN Return(r2, [success |-> FALSE, error |-> {r2.lastError},
                           attempts |-> {r.attempt}, statusCode |-> {status}])
          ELSE Backoff(r2)

\* the catch block returning the failure instead of falling through to the
\* next attempt
RelayCatchGivesUp(r, aborted, fault) ==
  LET e == IF aborted THEN TimeoutError(r.timeoutMs) ELSE ThrownError(fault)
  IN  [r EXCEPT !.st = "done", !.lastError = e,
                !.result = [success |-> FALSE, error |-> {e},
                            attempts |-> {r.attempt}, statusCode |-> r.lastStatusCode]]

\* sendRelayRequest: fetch rejected, the catch block
RelayCatch(r, aborted, fault) ==
  Backoff([r EXCEPT !.lastError = IF aborted THEN TimeoutError(r.timeoutMs)
                                             ELSE ThrownError(fault)])

\* sendDiscordWebhook with retry: fetch resolved with a response
DiscordResponse(r, status, text) ==
  LET r2 == [r EXCEPT !.lastError = HttpError(status, text)]
  IN  IF ResponseOk(status)
        THEN Return(r, [success |-> TRUE, error |-> Absent,
                        attempts |-> {r.attempt}, statusCode |-> Absent])
        ELSE IF ~ShouldRetry(status)
          THEN Return(r2, [success |-> FALSE, error |-> {r2.lastError},
                           attempts |-> {r.attempt}, statusCode |-> Absent])
          ELSE Backoff(r2)

\* sendDiscordWebhook with retry: fetch rejected, the catch block
DiscordCatch(r, fault) == Backoff([r EXCEPT !.lastError = ThrownError(fault)])

\* the single-shot sendDiscordWebhook: fetch resolved with a response
ModerationResponse(r, status, text) ==
  IF ~ResponseOk(status)
    THEN Return(r, [success |-> FALSE, error |-> {HttpError(status, text)},
                    attempts |-> Absent, statusCode |-> Absent])
    ELSE Return(r, [success |-> TRUE, error |-> Absent,
                    attempts |-> Absent, statusCode |-> Absent])

\* the single-shot sendDiscordWebhook: fetch rejected, the catch block
ModerationCatch(r, fault) ==
  Return(r, [success |-> FALSE, error |-> {ThrownError(fault)},
             attempts |-> Absent, statusCode |-> Absent])

(* -------------- integration SDK (@sentinel-unturned/integration-sdk) --- *)

\* a message of a WebhookResponse: its fixed text and the values
\* interpolated into it
Message(text, arg, status, attempts, error) ==
  [text |-> text, arg |-> arg, status |-> status, attempts |-> attempts, error |-> error]

Plain(text) == Message(text, Absent, Absent, Absent, Absent)

SuccessResponse(message) == [ok |-> TRUE, message |-> message]

ErrorResponse(message) == [ok |-> FALSE, message |-> message]

\* event kinds are dot-separated names, kept as their segments
GAMESERVER_CONNECTED == <<"gameserver", "connected">>

GAMESERVER_DISCONNECTED == <<"gameserver", "disconnected">>

GAMESERVER_UPDATED == <<"gameserver", "updated">>

CHAT_MESSAGE == <<"chat", "message">>

PLAYER_CONNECTED == <<"player", "connected">>

PLAYER_DISCONNECTED == <<"player", "disconnected">>

BAN_CREATED == <<"moderation", "ban", "created">>

BAN_REMOVED == <<"moderation", "ban", "removed">>

KICK_CREATED == <<"moderation", "kick", "created">>

WARN_CREATED == <<"moderation", "warn", "created">>

MUTE_CREATED == <<"moderation", "mute", "created">>

MUTE_REMOVED == <<"moderation", "mute", "removed">>

\* the one secret a deployment is configured with, and the header value that
\* is the valid signature of the request's raw body under it
TheSecret == "s3cret"

GoodSignature == "good"

\* verifyWebhookSignature(rawBody, signature, secret)
VerifyWebhookSignature(rawBody, signature, secret) ==
  secret = TheSecret /\ signature = GoodSignature

\* matchesPattern(event, pattern): a trailing * matches any suffix after
\* the literal prefix, a pattern without wildcard matches exactly
MatchesPattern(event, pattern) ==
  IF pattern # <<>> /\ pattern[Len(pattern)] = "*"
    THEN /\ Len(event) >= Len(pattern)
         /\ \A i \in 1..(Len(pattern) - 1) : event[i] = pattern[i]
    ELSE event = pattern

(* ----------------------------- handler inputs -------------------------- *)

\* "moderation" is the moderation handler whose messages name the attempt
\* count, on the retrying sendDiscordWebhook; "moderationRoot" is the
\* moderation handler with the plain messages, on the retrying
\* sendDiscordWebhook of its directory; "moderationSingle" is that handler
\* on the sendDiscordWebhook that posts once
Integrations ==
  {"relay", "serverStatus", "chatBridge", "playerActivity", "moderation", "moderationRoot",
   "moderationSingle"}

RegistryWithFallback(integration) ==
  CASE integration = "serverStatus" ->
         {GAMESERVER_CONNECTED, GAMESERVER_DISCONNECTED, GAMESERVER_UPDATED, <<"foo", "bar">>}
    [] integration = "chatBridge" -> {CHAT_MESSAGE}
    [] integration = "playerActivity" -> {PLAYER_CONNECTED, PLAYER_DISCONNECTED}
    [] integration \in {"moderation", "moderationRoot", "moderationSingle"} ->
         {BAN_CREATED, BAN_REMOVED, KICK_CREATED, WARN_CREATED, MUTE_CREATED, MUTE_REMOVED}
    [] OTHER -> {}

\* the keys of the registry an integration passes to createWebhookRouter;
\* the relay has no router and takes every event kind
Registry(integration) ==
  CASE integration = "serverStatus" ->
         {GAMESERVER_CONNECTED, GAMESERVER_DISCONNECTED, GAMESERVER_UPDATED}
    [] integration = "chatBridge" -> {CHAT_MESSAGE}
    [] integration = "playerActivity" -> {PLAYER_CONNECTED, PLAYER_DISCONNECTED}
    [] integration \in {"moderation", "moderationRoot", "moderationSingle"} ->
         {BAN_CREATED, BAN_REMOVED, KICK_CREATED, WARN_CREATED, MUTE_CREATED, MUTE_REMOVED}
    [] OTHER -> {}

\* the delivery function an integration's handler calls
SenderOf(integration) ==
  CASE integration = "relay" -> "relay"
    [] integration = "moderationSingle" -> "moderation"
    [] OTHER -> "discord"

EventKinds ==
  {GAMESERVER_CONNECTED, GAMESERVER_DISCONNECTED, GAMESERVER_UPDATED,
   CHAT_MESSAGE, PLAYER_CONNECTED,
   BAN_CREATED, MUTE_REMOVED, <<"foo", "bar">>}

\* the raw body: text that is not JSON, or the JSON of an envelope
Malformed ==
  [valid |-> FALSE, event |-> <<>>, channel |-> <<>>, message |-> <<>>,
   timestamp |-> "", organizationId |-> "", userId |-> Absent, extra |-> Absent]

\* userId is optional; extra is a field the envelope type does not name
Envelope(event, channel, message) ==
  [valid |-> TRUE, event |-> event, channel |-> channel, message |-> message,
   timestamp |-> "t1", organizationId |-> "org1", userId |-> Absent, extra |-> Absent]

Bodies ==
  {Malformed}
    \cup {Envelope(e, <<>>, <<>>) : e \in EventKinds \ {CHAT_MESSAGE}}
    \cup {Envelope(CHAT_MESSAGE, ch, m) : ch \in {<<"global">>, <<"admin">>},
                                         m \in {<<"hi">>, <<"!", "hi">>}}
    \cup {Envelope(CHAT_MESSAGE, <<"global">>, <<"hi", "!">>)}

SignatureHeader == "x-sentinel-signature"

HeaderMaps ==
  {[n \in {} |-> ""]}
    \cup {[n \in {SignatureHeader} |-> v] : v \in {"", GoodSignature, "bad"}}
    \cup {[n \in {"X-Sentinel-Signature"} |-> GoodSignature]}

\* the lookup of a header under any casing of its name
LookupAnyCase(headers, name) ==
  IF name \in DOMAIN headers THEN {headers[name]}
  ELSE IF name = "x-sentinel-signature" /\ "X-Sentinel-Signature" \in DOMAIN headers
    THEN {headers["X-Sentinel-Signature"]}
    ELSE Absent

\* headers[name]
Lookup(headers, name) == IF name \in DOMAIN headers THEN {headers[name]} ELSE Absent

\* truthiness of an optional string: undefined and '' are falsy
Truthy(opt) == opt # Absent /\ opt # {""}

TheUrl == "https://example.test/hook"

UrlValues == {Absent, {""}, {TheUrl}}

NoOptions == [maxAttempts |-> Absent, baseDelayMs |-> Absent, timeoutMs |-> Absent]

\* a HandlerContext: webhookSecret and the config fields of all integrations
BaseContext ==
  [integration |-> "relay", webhookSecret |-> Absent,
   url |-> Absent, urls |-> [e \in {} |-> Absent],
   notifyOnConnect |-> Absent, notifyOnDisconnect |-> Absent,
   notifyOnPlayerCountChange |-> Absent,
   channelFilter |-> Absent, messagePrefix |-> Absent,
   eventPatterns |-> Absent,
   maxRetries |-> Absent, retryDelayMs |-> Absent, timeoutMs |-> Absent,
   customHeaders |-> Absent, includeOriginalHeaders |-> Absent,
   transformPayload |-> Absent, secretHeader |-> Absent, secretValue |-> Absent]

SecretValues == {Absent, {""}, {TheSecret}}

FlagValues == {Absent, {TRUE}, {FALSE}}

PatternLists == {Absent, {<<>>}, {<<<<"chat", "*">>>>}, {<<<<"chat", "*">>, PLAYER_CONNECTED>>}}

\* the retry settings of a relay config: none, no attempt at all, a single
\* attempt, two attempts without delay and with a zero timeout
RelayRetryConfigs ==
  {[maxRetries |-> Absent, retryDelayMs |-> Absent, timeoutMs |-> Absent],
   [maxRetries |-> {0}, retryDelayMs |-> Absent, timeoutMs |-> Absent],
   [maxRetries |-> {1}, retryDelayMs |-> Absent, timeoutMs |-> Absent],
   [maxRetries |-> {2}, retryDelayMs |-> {0}, timeoutMs |-> {0}]}

\* per-event URLs of the moderation and player-activity configs: none set,
\* all set, and the first event's URL missing or empty
UrlMaps(integration) ==
  LET first == IF integration = "playerActivity" THEN PLAYER_CONNECTED ELSE BAN_CREATED
  IN  {[e \in Registry(integration) |-> Absent],
       [e \in Registry(integration) |-> {TheUrl}],
       [e \in Registry(integration) |-> IF e = first THEN Absent ELSE {TheUrl}],
       [e \in Registry(integration) |-> IF e = first THEN {""} ELSE {TheUrl}]}

Contexts ==
  UNION {
    {[BaseContext EXCEPT !.integration = "relay", !.webhookSecret = sec, !.url = u,
                         !.eventPatterns = p, !.maxRetries = rc.maxRetries,
                         !.retryDelayMs = rc.retryDelayMs, !.timeoutMs = rc.timeoutMs] :
        u \in UrlValues, p \in PatternLists, rc \in RelayRetryConfigs}
    \cup {[BaseContext EXCEPT !.integration = "serverStatus", !.webhookSecret = sec,
                              !.url = u, !.notifyOnConnect = f1,
                              !.notifyOnDisconnect = f2,
                              !.notifyOnPlayerCountChange = f3] :
        u \in UrlValues, f1 \in FlagValues, f2 \in FlagValues, f3 \in FlagValues}
    \cup {[BaseContext EXCEPT !.integration = "chatBridge", !.webhookSecret = sec,
                              !.url = u, !.channelFilter = cf, !.messagePrefix = mp] :
        u \in UrlValues, cf \in {Absent, {<<>>}, {<<<<"global">>>>}},
        mp \in {Absent, {<<>>}, {<<"!">>}}}
    \cup UNION {{[BaseContext EXCEPT !.integration = i, !.webhookSecret = sec, !.urls = um] :
                   um \in UrlMaps(i)} :
                 i \in {"playerActivity", "moderation", "moderationRoot", "moderationSingle"}}
    : sec \in SecretValues}

(* ------------------------ relay headers and payload -------------------- *)

NoHeaders == [n \in {} |-> ""]

ContentTypeJson == [n \in {"Content-Type"} |-> "application/json"]

\* key.toLowerCase() over the header names in use
ToLowerCase(key) ==
  CASE key = "X-Sentinel-Signature" -> "x-sentinel-signature"
    [] key = "X-Sentinel-Event" -> "x-sentinel-event"
    [] key = "Content-Type" -> "content-type"
    [] key = "Authorization" -> "authorization"
    [] key = "X-Api-Key" -> "x-api-key"
    [] OTHER -> key

\* lower.startsWith('x-sentinel-') over the header names in use
StartsWithSentinel(lower) == lower \in {"x-sentinel-signature", "x-sentinel-event"}

\* headers[key] = value for every entry of over, on top of base
Assign(base, over) ==
  [k \in DOMAIN base \cup DOMAIN over |-> IF k \in DOMAIN over THEN over[k] ELSE base[k]]

\* the forwarded headers assigned last, over customHeaders and the secret
BuildRelayHeadersForwardedLast(originalHeaders, config) ==
  LET forwarded ==
        [k \in {n \in DOMAIN originalHeaders : StartsWithSentinel(ToLowerCase(n))} |->
           originalHeaders[k]]
      h1 == IF config.customHeaders # Absent
              THEN Assign(ContentTypeJson, OrDefault(config.customHeaders, NoHeaders))
              ELSE ContentTypeJson
      h2 == IF Truthy(config.secretHeader) /\ Truthy(config.secretValue)
              THEN Assign(h1, [k \in config.secretHeader |->
                                 OrDefault(config.secretValue, "")])
              ELSE h1
      h3 == IF OrDefault(config.includeOriginalHeaders, TRUE)
              THEN Assign(h2, forwarded)
              ELSE h2
  IN  [headers |-> h3, originalHeaders |-> originalHeaders,
       customHeaders |-> config.customHeaders]

\* the headers collected in the customHeaders object of the configuration
BuildRelayHeadersInCustom(originalHeaders, config) ==
  LET forwarded ==
        [k \in {n \in DOMAIN originalHeaders : StartsWithSentinel(ToLowerCase(n))} |->
           originalHeaders[k]]
      h1 == IF OrDefault(config.includeOriginalHeaders, TRUE)
              THEN Assign(ContentTypeJson, forwarded)
              ELSE ContentTypeJson
      h2 == IF config.customHeaders # Absent
              THEN Assign(h1, OrDefault(config.customHeaders, NoHeaders))
              ELSE h1
      h3 == IF Truthy(config.secretHeader) /\ Truthy(config.secretValue)
              THEN Assign(h2, [k \in config.secretHeader |->
                                 OrDefault(config.secretValue, "")])
              ELSE h2
  IN  [headers |-> h3, originalHeaders |-> originalHeaders,
       customHeaders |-> IF config.customHeaders # Absent THEN {h3} ELSE Absent]

\* buildRelayHeaders: the headers it returns, and its two arguments'
\* objects as they are when it returns
BuildRelayHeaders(originalHeaders, config) ==
  LET forwarded ==
        [k \in {n \in DOMAIN originalHeaders : StartsWithSentinel(ToLowerCase(n))} |->
           originalHeaders[k]]
      h1 == IF OrDefault(config.includeOriginalHeaders, TRUE)
              THEN Assign(ContentTypeJson, forwarded)
              ELSE ContentTypeJson
      h2 == IF config.customHeaders # Absent
              THEN Assign(h1, OrDefault(config.customHeaders, NoHeaders))
              ELSE h1
      h3 == IF Truthy(config.secretHeader) /\ Truthy(config.secretValue)
              THEN Assign(h2, [k \in config.secretHeader |->
                                 OrDefault(config.secretValue, "")])
              ELSE h2
  IN  [headers |-> h3, originalHeaders |-> originalHeaders,
       customHeaders |-> config.customHeaders]

\* a decoded JSON object: its field names and their values; a string value
\* is kept as a one-element sequence, undefined as no value
NoObject == [n \in {} |-> Absent]

Str(text) == {<<text>>}

\* JSON.parse(rawBody) as WebhookPayload
Parse(rawBody) ==
  LET named == [k \in {"event", "timestamp", "organizationId", "data"} |->
                  CASE k = "event" -> {rawBody.event}
                    [] k = "timestamp" -> Str(rawBody.timestamp)
                    [] k = "organizationId" -> Str(rawBody.organizationId)
                    [] k = "data" -> {rawBody.channel \o rawBody.message}]
      user == [k \in {n \in {"userId"} : rawBody.userId # Absent} |->
                 {<<v>> : v \in rawBody.userId}]
      more == [k \in {n \in {"extra"} : rawBody.extra # Absent} |->
                 {<<v>> : v \in rawBody.extra}]
  IN  Assign(Assign(named, user), more)

\* payload.field
Field(object, name) == IF name \in DOMAIN object THEN object[name] ELSE Absent

EnvelopeFields == {"source", "event", "timestamp", "organizationId", "userId", "data"}

TransformPayloadInPlace(payload, transform) ==
  LET stamped == Assign(payload, [k \in {"source"} |-> Str("sentinel")])
  IN  [out |-> IF ~transform THEN payload ELSE stamped,
       payload |-> IF ~transform THEN payload ELSE stamped]

\* transformPayload: the value it returns, and its argument's object as it
\* is when it returns
TransformPayload(payload, transform) ==
  [out |-> IF ~transform
             THEN payload
             ELSE [k \in EnvelopeFields |->
                     IF k = "source" THEN Str("sentinel") ELSE Field(payload, k)],
   payload |-> payload]

\* the headers option of the fetch call of a delivery function
PostHeaders(sender, headers) == IF sender = "relay" THEN headers ELSE ContentTypeJson

(* ------------------------------ handleWebhook -------------------------- *)

\* what handleWebhook has done when it returns or reaches its first await:
\* kind "response" (it returned), "throw" (it rejected) or "deliver" (it
\* awaits the delivery function); decoded, verified and ran record that
\* JSON.parse, verifyWebhookSignature and event handlers were executed
Outcome0 ==
  [kind |-> "response", response |-> Absent, decoded |-> FALSE, verified |-> FALSE,
   ran |-> {}, sender |-> "relay", options |-> NoOptions,
   payload |-> NoObject, outHeaders |-> NoHeaders, outBody |-> NoObject,
   headersAfter |-> NoHeaders, ctxAfter |-> BaseContext]

Replies(o, response) == [o EXCEPT !.kind = "response", !.response = {response}]

Delivers(o, sender, options) == [o EXCEPT !.kind = "deliver", !.sender = sender, !.options = options]

MatchesEventPatternsEvery(event, patterns) ==
  IF patterns = Absent \/ patterns = {<<>>}
    THEN TRUE
    ELSE \E ps \in patterns : \A i \in 1..Len(ps) : MatchesPattern(event, ps[i])

MatchesEventPatternsSingleIgnored(event, patterns) ==
  IF patterns = Absent \/ (\E ps \in patterns : Len(ps) <= 1)
    THEN TRUE
    ELSE \E ps \in patterns : \E i \in 1..Len(ps) : MatchesPattern(event, ps[i])

\* matchesEventPatterns
MatchesEventPatterns(event, patterns) ==
  IF patterns = Absent \/ patterns = {<<>>}
    THEN TRUE
    ELSE \E ps \in patterns : \E i \in 1..Len(ps) : MatchesPattern(event, ps[i])

\* passesChannelFilter
PassesChannelFilter(channel, filter) ==
  IF filter = Absent \/ filter = {<<>>}
    THEN TRUE
    ELSE \E f \in filter : \E i \in 1..Len(f) : f[i] = channel

PassesPrefixFilterAnywhere(message, prefix) ==
  IF prefix = Absent \/ prefix = {<<>>}
    THEN TRUE
    ELSE \E p \in prefix : \E at \in 0..(Len(message) - Len(p)) :
           \A i \in 1..Len(p) : message[at + i] = p[i]

\* passesPrefixFilter: message.startsWith(prefix), '' and undefined pass all
PassesPrefixFilter(message, prefix) ==
  IF prefix = Absent \/ prefix = {<<>>}
    THEN TRUE
    ELSE \E p \in prefix :
           /\ Len(message) >= Len(p)
           /\ \A i \in 1..Len(p) : message[i] = p[i]

RelayHandlerRetriesAfterFirst(cx, payload, o) ==
  IF ~Truthy(cx.url)
    THEN Replies(o, SuccessResponse(Plain("Target URL not configured, skipping")))
    ELSE IF ~MatchesEventPatterns(payload.event, cx.eventPatterns)
      THEN Replies(o, SuccessResponse(
             Message("Event does not match patterns, skipping", {payload.event},
                     Absent, Absent, Absent)))
      ELSE LET built == BuildRelayHeaders(o.headersAfter, cx)
               moved == TransformPayload(o.payload, OrDefault(cx.transformPayload, FALSE))
               sent == Delivers(o, "relay",
                         [maxAttempts |-> {OrDefault(cx.maxRetries, DefaultMaxAttempts) + 1},
                          baseDelayMs |-> {OrDefault(cx.retryDelayMs, DefaultBaseDelayMs)},
                          timeoutMs |-> {OrDefault(cx.timeoutMs, DefaultTimeoutMs)}])
           IN  [sent EXCEPT !.outHeaders = built.headers,
                            !.headersAfter = built.originalHeaders,
                            !.ctxAfter = [cx EXCEPT !.customHeaders = built.customHeaders],
                            !.outBody = moved.out,
                            !.payload = moved.payload]

\* the relay handler after JSON.parse
RelayHandler(cx, payload, o) ==
  IF ~Truthy(cx.url)
    THEN Replies(o, SuccessResponse(Plain("Target URL not configured, skipping")))
    ELSE IF ~MatchesEventPatterns(payload.event, cx.eventPatterns)
      THEN Replies(o, SuccessResponse(
             Message("Event does not match patterns, skipping", {payload.event},
                     Absent, Absent, Absent)))
      ELSE LET built == BuildRelayHeaders(o.headersAfter, cx)
               moved == TransformPayload(o.payload, OrDefault(cx.transformPayload, FALSE))
               sent == Delivers(o, "relay",
                         [maxAttempts |-> {OrDefault(cx.maxRetries, DefaultMaxAttempts)},
                          baseDelayMs |-> {OrDefault(cx.retryDelayMs, DefaultBaseDelayMs)},
                          timeoutMs |-> {OrDefault(cx.timeoutMs, DefaultTimeoutMs)}])
           IN  [sent EXCEPT !.outHeaders = built.headers,
                            !.headersAfter = built.originalHeaders,
                            !.ctxAfter = [cx EXCEPT !.customHeaders = built.customHeaders],
                            !.outBody = moved.out,
                            !.payload = moved.payload]

\* the server-status handlers testing the feature flag before the URL
ServerStatusHandlerFlagFirst(cx, payload, o) ==
  LET enabled ==
        CASE payload.event = GAMESERVER_CONNECTED -> OrDefault(cx.notifyOnConnect, TRUE)
          [] payload.event = GAMESERVER_DISCONNECTED -> OrDefault(cx.notifyOnDisconnect, TRUE)
          [] OTHER -> OrDefault(cx.notifyOnPlayerCountChange, FALSE)
      disabled ==
        CASE payload.event = GAMESERVER_CONNECTED -> "Connect notifications disabled, skipping"
          [] payload.event = GAMESERVER_DISCONNECTED -> "Disconnect notifications disabled, skipping"
          [] OTHER -> "Update notifications disabled, skipping"
  IN  IF ~enabled
        THEN Replies(o, SuccessResponse(Plain(disabled)))
        ELSE IF ~Truthy(cx.url)
          THEN Replies(o, SuccessResponse(Plain("Webhook URL not configured, skipping")))
          ELSE Delivers(o, "discord", NoOptions)

ServerStatusHandlerAllOnByDefault(cx, payload, o) ==
  LET enabled ==
        CASE payload.event = GAMESERVER_CONNECTED -> OrDefault(cx.notifyOnConnect, TRUE)
          [] payload.event = GAMESERVER_DISCONNECTED -> OrDefault(cx.notifyOnDisconnect, TRUE)
          [] OTHER -> OrDefault(cx.notifyOnPlayerCountChange, TRUE)
  IN  IF ~Truthy(cx.url)
        THEN Replies(o, SuccessResponse(Plain("Webhook URL not configured, skipping")))
        ELSE IF ~enabled
          THEN Replies(o, SuccessResponse(Plain("Update notifications disabled, skipping")))
          ELSE Delivers(o, "discord", NoOptions)

\* the three handlers of the server-status registry
ServerStatusHandler(cx, payload, o) ==
  LET enabled ==
        CASE payload.event = GAMESERVER_CONNECTED -> OrDefault(cx.notifyOnConnect, TRUE)
          [] payload.event = GAMESERVER_DISCONNECTED -> OrDefault(cx.notifyOnDisconnect, TRUE)
          [] OTHER -> OrDefault(cx.notifyOnPlayerCountChange, FALSE)
      disabled ==
        CASE payload.event = GAMESERVER_CONNECTED -> "Connect notifications disabled, skipping"
          [] payload.event = GAMESERVER_DISCONNECTED -> "Disconnect notifications disabled, skipping"
          [] OTHER -> "Update notifications disabled, skipping"
  IN  IF ~Truthy(cx.url)
        THEN Replies(o, SuccessResponse(Plain("Webhook URL not configured, skipping")))
        ELSE IF ~enabled
          THEN Replies(o, SuccessResponse(Plain(disabled)))
          ELSE Delivers(o, "discord", NoOptions)

\* the chat.message handler of the chat bridge
ChatBridgeHandler(cx, payload, o) ==
  IF ~Truthy(cx.url)
    THEN Replies(o, SuccessResponse(Plain("Webhook URL not configured, skipping")))
    ELSE IF ~PassesChannelFilter(payload.channel, cx.channelFilter)
      THEN Replies(o, SuccessResponse(
             Message("Channel filtered out, skipping", {payload.channel},
                     Absent, Absent, Absent)))
      ELSE IF ~PassesPrefixFilter(payload.message, cx.messagePrefix)
        THEN Replies(o, SuccessResponse(Plain("Message prefix not matched, skipping")))
        ELSE Delivers(o, "discord", NoOptions)

PerEventUrlHandlerUndefinedOnly(cx, payload, o) ==
  IF cx.urls[payload.event] = Absent
    THEN Replies(o, SuccessResponse(Plain("Webhook URL not configured, skipping")))
    ELSE Delivers(o, SenderOf(cx.integration), NoOptions)

\* the handlers of the player-activity and moderation registries: one URL
\* per event kind
PerEventUrlHandler(cx, payload, o) ==
  IF ~Truthy(cx.urls[payload.event])
    THEN Replies(o, SuccessResponse(Plain("Webhook URL not configured, skipping")))
    ELSE Delivers(o, SenderOf(cx.integration), NoOptions)

\* the function createWebhookRouter returns: the handler registered for the
\* event kind, or a successful response when there is none
Router(cx, payload, o) ==
  IF payload.event \notin Registry(cx.integration)
    THEN Replies(o, SuccessResponse(
           Message("No handler registered for event", {payload.event}, Absent, Absent, Absent)))
    ELSE LET o1 == [o EXCEPT !.ran = {payload.event}]
         IN  CASE cx.integration = "serverStatus" -> ServerStatusHandler(cx, payload, o1)
               [] cx.integration = "chatBridge" -> ChatBridgeHandler(cx, payload, o1)
               [] OTHER -> PerEventUrlHandler(cx, payload, o1)

GatedAlways(cx) == TRUE

\* the gate closed by every secret that is not undefined, '' included
GatedUnlessUndefined(cx) == cx.webhookSecret # Absent

\* if (ctx.webhookSecret): undefined and '' leave the gate open
Gated(cx) == Truthy(cx.webhookSecret)

SignatureGateMissingOnly(cx, rawBody, headers) ==
  LET signature == Lookup(headers, SignatureHeader)
  IN  IF Gated(cx) /\ ~Truthy(signature)
        THEN {ErrorResponse(Plain("Missing signature header"))}
        ELSE Absent

\* the signature check at the head of handleWebhook: the response it
\* returns, or nothing when the request passes
SignatureGate(cx, rawBody, headers) ==
  LET signature == Lookup(headers, SignatureHeader)
  IN  IF ~Gated(cx)
        THEN Absent
        ELSE IF ~Truthy(signature)
          THEN {ErrorResponse(Plain("Missing signature header"))}
          ELSE IF ~VerifyWebhookSignature(rawBody, OrDefault(signature, ""),
                                          OrDefault(cx.webhookSecret, ""))
            THEN {ErrorResponse(Plain("Invalid signature"))}
            ELSE Absent

\* the body decoded first, the signature checked afterwards
HandleWebhookDecodeFirst(cx, rawBody, headers) ==
  LET rejected == SignatureGate(cx, rawBody, headers)
      o == [Outcome0 EXCEPT
              !.verified = Gated(cx) /\ Truthy(Lookup(headers, SignatureHeader)),
              !.headersAfter = headers,
              !.ctxAfter = cx]
  IN  IF ~rawBody.valid
        THEN [o EXCEPT !.kind = "throw", !.verified = FALSE]
        ELSE IF rejected # Absent
          THEN [o EXCEPT !.response = rejected]
          ELSE LET o1 == [o EXCEPT !.decoded = TRUE, !.payload = Parse(rawBody)]
               IN  IF cx.integration = "relay"
                     THEN RelayHandler(cx, rawBody, o1)
                     ELSE Router(cx, rawBody, o1)

\* handleWebhook up to its return or its first await
HandleWebhook(cx, rawBody, headers) ==
  LET rejected == SignatureGate(cx, rawBody, headers)
      o == [Outcome0 EXCEPT
              !.verified = Gated(cx) /\ Truthy(Lookup(headers, SignatureHeader)),
              !.headersAfter = headers,
              !.ctxAfter = cx]
  IN  IF rejected # Absent
        THEN [o EXCEPT !.response = rejected]
        ELSE IF ~rawBody.valid
          THEN [o EXCEPT !.kind = "throw"]
          ELSE LET o1 == [o EXCEPT !.decoded = TRUE, !.payload = Parse(rawBody)]
               IN  IF cx.integration = "relay"
                     THEN RelayHandler(cx, rawBody, o1)
                     ELSE Router(cx, rawBody, o1)

\* formatSuccessMessage and formatErrorMessage of an integration, applied
\* to the result of the delivery
DeliveryResponse(integration, result) ==
  LET many == \E a \in result.attempts : a > 1
      plain == integration \in {"moderationRoot", "moderationSingle"}
  IN  IF result.success
        THEN SuccessResponse(
               Message(IF integration = "relay" THEN "Relayed to" ELSE "Sent to Discord",
                       Absent,
                       IF integration = "relay" THEN result.statusCode ELSE Absent,
                       IF many /\ ~plain THEN result.attempts ELSE Absent,
                       Absent))
        ELSE ErrorResponse(
               Message(IF integration = "relay" THEN "Relay failed after"
                       ELSE IF plain THEN "Discord webhook failed"
                       ELSE "Discord webhook failed after",
                       Absent, Absent,
                       IF plain THEN Absent ELSE result.attempts,
                       result.error))

\* one invocation of handleWebhook
NoInbound ==
  [stage |-> "idle", rawBody |-> Malformed, headers |-> NoHeaders,
   response |-> Absent, decoded |-> FALSE, verified |-> FALSE, ran |-> {},
   payload |-> NoObject, outHeaders |-> NoHeaders, outBody |-> NoObject,
   headersAfter |-> NoHeaders]

\* the continuation of the await of the delivery function: the delivery
\* result becomes the response
Settle(cx, i, r) ==
  IF i.stage = "delivering" /\ r.st = "done"
    THEN [i EXCEPT !.stage = "responded",
                   !.response = {DeliveryResponse(cx.integration, r.result)}]
    ELSE i

Begin(sender, options) ==
  CASE sender = "relay" -> RelayBegin(options)
    [] sender = "discord" -> DiscordBegin(options)
    [] sender = "moderation" -> ModerationBegin

(* -------------------------------- actions ------------------------------ *)

\* jitter on the inter-attempt wait, drawn from a generator the calls share
SetJitter(c, r) ==
  LET drawn == Cardinality({d \in DOMAIN calls : calls[d].st # "idle"}) - 1
      waited == IF Len(r.waits) > Len(calls[c].waits)
                  THEN [r EXCEPT !.waits[Len(r.waits)] = @ + drawn]
                  ELSE r
  IN  /\ calls' = [calls EXCEPT ![c] = waited]
      /\ inbound' = [inbound EXCEPT ![c] = Settle(ctx, @, waited)]
      /\ ctx' = ctx

\* lastError kept in one variable of the module instead of one per call
SetSharedLastError(c, r) ==
  /\ calls' = [d \in DOMAIN calls |->
                IF d = c THEN r
                ELSE IF calls[d].st \in {"fetch", "sleep"}
                  THEN [calls[d] EXCEPT !.lastError = r.lastError]
                  ELSE calls[d]]
  /\ inbound' = [inbound EXCEPT ![c] = Settle(ctx, @, r)]
  /\ ctx' = ctx

\* the step of one call: its local variables and its promise
Set(c, r) ==
  /\ calls' = [calls EXCEPT ![c] = r]
  /\ inbound' = [inbound EXCEPT ![c] = Settle(ctx, @, r)]
  /\ ctx' = ctx

\* a caller invokes the delivery function
Start(c) ==
  /\ calls[c].st = "idle"
  /\ \/ \E options \in Options : Set(c, RelayBegin(options))
     \/ \E options \in Options : options.timeoutMs = Absent /\ Set(c, DiscordBegin(options))
     \/ Set(c, ModerationBegin)

\* the continuation of the await of fetch when it resolves
OnResponse(r, status, text) ==
  CASE r.sender = "relay" -> RelayResponse(r, status, text)
    [] r.sender = "discord" -> DiscordResponse(r, status, text)
    [] r.sender = "moderation" -> ModerationResponse(r, status, text)

\* the continuation of the await of fetch when it rejects without an abort
OnThrow(r, fault) ==
  CASE r.sender = "relay" -> RelayCatch(r, FALSE, fault)
    [] r.sender = "discord" -> DiscordCatch(r, fault)
    [] r.sender = "moderation" -> ModerationCatch(r, fault)

\* the remote endpoint answers the POST in flight
Respond(c) ==
  /\ calls[c].st = "fetch"
  /\ \E status \in Statuses, text \in Texts :
       Set(c, OnResponse(Logged(calls[c], Outcome("response", status)), status, text))

\* the POST in flight fails at the transport level
Throw(c) ==
  /\ calls[c].st = "fetch"
  /\ \E fault \in Faults :
       Set(c, OnThrow(Logged(calls[c], Outcome(fault, 0)), fault))

\* the timer of the attempt in flight fires: controller.abort() rejects the
\* fetch with an AbortError
TimerAborts(c) ==
  /\ calls[c].st = "fetch"
  /\ calls[c].attempt \in calls[c].timers
  /\ LET r == Logged([calls[c] EXCEPT !.timers = @ \ {calls[c].attempt}], Outcome("AbortError", 0))
     IN  Set(c, RelayCatch(r, TRUE, "AbortError"))

\* a left-over timer aborting the request in flight, as with one controller
\* shared by the attempts of a call
StaleTimerAbortsInFlight(c) ==
  \E k \in calls[c].timers :
    /\ ~(calls[c].st = "fetch" /\ calls[c].attempt = k)
    /\ IF calls[c].st = "fetch"
         THEN Set(c, RelayCatch(Logged([calls[c] EXCEPT !.timers = @ \ {k}],
                                       Outcome("AbortError", 0)), TRUE, "AbortError"))
         ELSE Set(c, [calls[c] EXCEPT !.timers = @ \ {k}])

\* a timer that the catch block left armed fires: it aborts the controller
\* of an attempt that is over
StaleTimerFires(c) ==
  \E k \in calls[c].timers :
    /\ ~(calls[c].st = "fetch" /\ calls[c].attempt = k)
    /\ Set(c, [calls[c] EXCEPT !.timers = @ \ {k}])

\* the sleep between two attempts is over
WakeUp(c) ==
  /\ calls[c].st = "sleep"
  /\ Set(c, NextAttempt(calls[c]))

Init ==
  /\ calls = [c \in {"c1"} |-> Idle]
  /\ ctx = BaseContext
  /\ inbound = [c \in {"c1"} |-> NoInbound]

Next ==
  \E c \in DOMAIN calls :
    \/ Start(c)
    \/ Respond(c)
    \/ Throw(c)
    \/ TimerAborts(c)
    \/ StaleTimerFires(c)
    \/ WakeUp(c)

Spec == Init /\ [][Next]_vars

\* timers fire: an armed timeout timer and a pending sleep both run out.
\* Nothing obliges the remote endpoint to answer or the transport to fail.
SpecLive ==
  /\ Spec
  /\ WF_vars(\E c \in DOMAIN calls : TimerAborts(c))
  /\ WF_vars(\E c \in DOMAIN calls : StaleTimerFires(c))
  /\ WF_vars(\E c \in DOMAIN calls : WakeUp(c))

(* ----------------------- two deliveries at a time ---------------------- *)

\* attempts of a delivery that runs beside another one
MaxConcurrentAttempts == 2

ConcurrentOptions ==
  [maxAttempts : {{MaxConcurrentAttempts}}, baseDelayMs : {Absent, {0}}, timeoutMs : {Absent}]

ConcurrentStatuses == {200, 500}

\* two callers invoke a retrying delivery function on the same handler
\* instance
ConcurrentStart(c) ==
  /\ calls[c].st = "idle"
  /\ \E options \in ConcurrentOptions :
       \/ Set(c, RelayBegin(options))
       \/ Set(c, DiscordBegin(options))

ConcurrentRespond(c) ==
  /\ calls[c].st = "fetch"
  /\ \E status \in ConcurrentStatuses :
       Set(c, OnResponse(Logged(calls[c], Outcome("response", status)), status, "body"))

ConcurrentThrow(c) ==
  /\ calls[c].st = "fetch"
  /\ Set(c, OnThrow(Logged(calls[c], Outcome("fetch failed", 0)), "fetch failed"))

InitConcurrent ==
  /\ calls = [c \in {"c1", "c2"} |-> Idle]
  /\ ctx = BaseContext
  /\ inbound = [c \in {"c1", "c2"} |-> NoInbound]

NextConcurrent ==
  \E c \in DOMAIN calls :
    \/ ConcurrentStart(c)
    \/ ConcurrentRespond(c)
    \/ ConcurrentThrow(c)
    \/ TimerAborts(c)
    \/ StaleTimerFires(c)
    \/ WakeUp(c)

SpecConcurrent == InitConcurrent /\ [][NextConcurrent]_vars

(* --------------------- inbound webhooks on a handler ------------------- *)

HandlerStatuses == {200, 404, 500}

\* the platform calls handleWebhook(rawBody, headers), with the request
\* drawn from the given bodies and header maps
HandleFrom(c, bodies, headerMaps) ==
  /\ inbound[c].stage = "idle"
  /\ calls[c].st = "idle"
  /\ \E rawBody \in bodies, headers \in headerMaps :
       LET o == HandleWebhook(ctx, rawBody, headers)
           r == IF o.kind = "deliver" THEN Begin(o.sender, o.options) ELSE calls[c]
           i == [stage |-> CASE o.kind = "deliver" -> "delivering"
                             [] o.kind = "throw" -> "threw"
                             [] OTHER -> "responded",
                 rawBody |-> rawBody, headers |-> headers, response |-> o.response,
                 decoded |-> o.decoded, verified |-> o.verified, ran |-> o.ran,
                 payload |-> o.payload, outHeaders |-> o.outHeaders,
                 outBody |-> o.outBody, headersAfter |-> o.headersAfter]
       IN  /\ calls' = [calls EXCEPT ![c] = r]
           /\ inbound' = [inbound EXCEPT ![c] = Settle(o.ctxAfter, i, r)]
           /\ ctx' = o.ctxAfter

Handle(c) == HandleFrom(c, Bodies, HeaderMaps)

HandlerRespond(c) ==
  /\ calls[c].st = "fetch"
  /\ \E status \in HandlerStatuses :
       Set(c, OnResponse(Logged(calls[c], Outcome("response", status)), status, "body"))

HandlerThrow(c) ==
  /\ calls[c].st = "fetch"
  /\ Set(c, OnThrow(Logged(calls[c], Outcome("fetch failed", 0)), "fetch failed"))

\* createHandler(ctx) has returned handleWebhook
InitHandler ==
  /\ ctx \in Contexts
  /\ calls = [c \in {"c1"} |-> Idle]
  /\ inbound = [c \in {"c1"} |-> NoInbound]

NextHandler ==
  \E c \in DOMAIN calls :
    \/ Handle(c)
    \/ HandlerRespond(c)
    \/ HandlerThrow(c)
    \/ TimerAborts(c)
    \/ StaleTimerFires(c)
    \/ WakeUp(c)

SpecHandler == InitHandler /\ [][NextHandler]_vars

(* ------------------- inbound webhooks on a relay handler --------------- *)

RelayEventKinds ==
  {CHAT_MESSAGE, <<"chat">>, <<"chat", "">>, <<"chat", "*">>, PLAYER_CONNECTED,
   <<"foo", "bar">>}

RelayPatternLists ==
  {Absent, {<<>>}}
    \cup {{<<k>>} : k \in RelayEventKinds}
    \cup {{<<<<"chat", "*">>, PLAYER_CONNECTED>>}, {<<<<"foo", "bar">>, <<"chat">>>>}}

CustomHeaderValues ==
  {Absent, {NoHeaders},
   {[n \in {"X-Api-Key"} |-> "key"]},
   {[n \in {"Content-Type"} |-> "text/plain"]},
   {[n \in {"x-sentinel-event"} |-> "custom"]}}

\* secretHeader and secretValue
SecretHeaderPairs ==
  {<<Absent, Absent>>, <<{"Authorization"}, {"token"}>>, <<{"Authorization"}, Absent>>,
   <<{"Content-Type"}, {"token"}>>, <<{"x-sentinel-event"}, {"token"}>>,
   <<{"Authorization"}, {""}>>, <<Absent, {"token"}>>}

\* a relay with a target URL, no webhook secret and two attempts 0.5 ms apart
RelayContext ==
  [BaseContext EXCEPT !.integration = "relay", !.url = {TheUrl},
                      !.maxRetries = {2}, !.retryDelayMs = {1}]

RelayContexts ==
  {[RelayContext EXCEPT !.eventPatterns = p] : p \in RelayPatternLists}
    \cup {[RelayContext EXCEPT !.customHeaders = ch, !.includeOriginalHeaders = inc,
                               !.secretHeader = sp[1], !.secretValue = sp[2]] :
            ch \in CustomHeaderValues, inc \in FlagValues, sp \in SecretHeaderPairs}
    \cup {[RelayContext EXCEPT !.transformPayload = t] : t \in FlagValues}

RelayBodies ==
  {Malformed}
    \cup {Envelope(e, <<>>, <<>>) : e \in RelayEventKinds}
    \cup {[Envelope(CHAT_MESSAGE, <<"global">>, <<"hi">>) EXCEPT !.userId = u, !.extra = x] :
            u \in {Absent, {"u1"}}, x \in {Absent, {"more"}}}

RelayHeaderMaps ==
  {NoHeaders,
   [n \in {SignatureHeader} |-> GoodSignature],
   [n \in {"X-Sentinel-Event", "Content-Type"} |->
      IF n = "Content-Type" THEN "text/plain" ELSE "chat"],
   [n \in {"x-sentinel-event", "Authorization"} |->
      IF n = "Authorization" THEN "inbound" ELSE "chat"]}

RelayHandle(c) == HandleFrom(c, RelayBodies, RelayHeaderMaps)

InitRelay ==
  /\ ctx \in RelayContexts
  /\ calls = [c \in {"c1"} |-> Idle]
  /\ inbound = [c \in {"c1"} |-> NoInbound]

NextRelay ==
  \E c \in DOMAIN calls :
    \/ RelayHandle(c)
    \/ HandlerRespond(c)
    \/ HandlerThrow(c)
    \/ TimerAborts(c)
    \/ StaleTimerFires(c)
    \/ WakeUp(c)

SpecRelay == InitRelay /\ [][NextRelay]_vars

(* ------------------------- vocabulary of the claims -------------------- *)

\* the delivery functions that take retry options and report attempts
Retrying == {"relay", "discord"}

Last(seq) == seq[Len(seq)]

IsResponse(o) == o.kind = "response"

IsFault(o) == o.kind # "response"

Is2xx(status) == status \in 200..299

Is5xx(status) == status \in 500..599

\* the retryable class of the specification: 429 and 5xx
RetryableStatus(status) == status = 429 \/ Is5xx(status)

\* a 4xx other than 429, or any status that is neither 2xx, 429 nor 5xx
NonRetryableStatus(status) == ~Is2xx(status) /\ ~RetryableStatus(status)

RetryableFailure(o) == IsFault(o) \/ RetryableStatus(o.status)

\* the error string an attempt with this outcome records
RecordedError(r, o) ==
  CASE o.kind = "response" -> {HttpError(o.status, t) : t \in Texts}
    [] o.kind = "AbortError" -> {TimeoutError(r.timeoutMs)}
    [] OTHER -> {ThrownError(o.kind)}

\* the waits a call has taken when attempt k is the latest one issued
WaitsBefore(r, k) == IF r.baseDelayMs > 0 THEN k - 1 ELSE 0

\* the attempt cap a delivery runs under; the single-shot sender takes no
\* options, so the documented default applies to it
Cap(r) == IF r.sender = "moderation" THEN DefaultMaxAttempts ELSE r.maxAttempts

Started(r) == r.st # "idle"

Done(r) == r.st = "done"

(* --------------------------------- claims ------------------------------ *)

\* C1: one delivery call issues at most maxAttempts HTTP POSTs, whatever the
\* responses, the transport faults and the options: every POST in flight is
\* an attempt numbered 1..maxAttempts and the number of POSTs issued never
\* exceeds the cap.
C1_PostsWithinCap ==
  \A c \in DOMAIN calls :
    LET r == calls[c]
    IN  Started(r) =>
          /\ r.posts <= Cap(r)
          /\ r.st = "fetch" => r.attempt \in 1..Cap(r)

C1_Witness ==
  \E c \in DOMAIN calls :
    /\ Done(calls[c])
    /\ calls[c].sender \in Retrying
    /\ calls[c].maxAttempts = 2
    /\ calls[c].posts = 2

\* C2: a 2xx response on attempt k ends the delivery at once with
\* success=true and attempts=k (and that status code in the relay): the call
\* is over, k POSTs were issued and only the waits before attempt k taken.
C2_SuccessReturnsImmediately ==
  \A c \in DOMAIN calls :
    LET r == calls[c]
        k == Len(r.log)
    IN  (r.sender \in Retrying /\ k >= 1 /\ IsResponse(Last(r.log))
           /\ Is2xx(Last(r.log).status)) =>
          /\ k <= r.maxAttempts
          /\ Done(r)
          /\ r.result.success
          /\ r.result.attempts = {k}
          /\ r.sender = "relay" => r.result.statusCode = {Last(r.log).status}
          /\ r.posts = k
          /\ Len(r.waits) = WaitsBefore(r, k)

C2_Witness ==
  \E c \in DOMAIN calls :
    /\ Done(calls[c])
    /\ calls[c].sender = "relay"
    /\ calls[c].result.success
    /\ calls[c].result.attempts = {2}
    /\ calls[c].result.statusCode = {299}
    /\ Len(calls[c].waits) = 1

\* C3: with maxAttempts = n >= 1 and baseDelayMs > 0, n consecutive
\* retryable failures (429, 5xx or transport faults) end the delivery with
\* success=false and attempts=n after exactly n POSTs and exactly n-1 waits:
\* no wait follows the final attempt.
C3_RetryExhaustion ==
  \A c \in DOMAIN calls :
    LET r == calls[c]
        n == r.maxAttempts
    IN  (r.sender \in Retrying /\ n >= 1 /\ r.baseDelayMs > 0 /\ Len(r.log) = n
           /\ \A i \in 1..n : RetryableFailure(r.log[i])) =>
          /\ Done(r)
          /\ ~r.result.success
          /\ r.result.attempts = {n}
          /\ r.posts = n
          /\ Len(r.waits) = n - 1

C3_Witness ==
  \E c \in DOMAIN calls :
    /\ Done(calls[c])
    /\ calls[c].maxAttempts = 3
    /\ calls[c].baseDelayMs = DefaultBaseDelayMs
    /\ Len(calls[c].log) = 3
    /\ \A i \in 1..3 : calls[c].log[i] = Outcome("response", 500)
    /\ calls[c].result.attempts = {3}
    /\ Len(calls[c].waits) = 2

\* C4: a non-retryable status on attempt k (a 4xx other than 429, or any
\* status that is neither 2xx, 429 nor 5xx) ends the delivery at once with
\* success=false, attempts=k and that status, with no wait after it.
C4_NonRetryableShortCircuit ==
  \A c \in DOMAIN calls :
    LET r == calls[c]
        k == Len(r.log)
    IN  (r.sender \in Retrying /\ k >= 1 /\ IsResponse(Last(r.log))
           /\ NonRetryableStatus(Last(r.log).status)) =>
          /\ Done(r)
          /\ ~r.result.success
          /\ r.result.attempts = {k}
          /\ r.sender = "relay" => r.result.statusCode = {Last(r.log).status}
          /\ r.posts = k
          /\ Len(r.waits) = WaitsBefore(r, k)

\* C5: a non-2xx response status triggers another attempt if and only if it
\* is 429 or 5xx: after any other status the delivery is over, and after a
\* 429 or 5xx with attempts left it is not.
C5_StatusClassification ==
  \A c \in DOMAIN calls :
    LET r == calls[c]
        k == Len(r.log)
    IN  (r.sender \in Retrying /\ k >= 1 /\ IsResponse(Last(r.log))
           /\ ~Is2xx(Last(r.log).status) /\ k < r.maxAttempts) =>
          (~Done(r) <=> RetryableStatus(Last(r.log).status))

\* C6: a transport fault (network error, timeout or abort) on attempt k is
\* recorded as the latest error; with k < maxAttempts attempt k+1 follows
\* (after the wait, if one is due), and once maxAttempts attempts are used up
\* the delivery returns success=false, attempts=maxAttempts and that error.
C6_FaultState ==
  \A c \in DOMAIN calls :
    LET r == calls[c]
        k == Len(r.log)
    IN  (r.sender \in Retrying /\ k >= 1 /\ IsFault(Last(r.log))) =>
          /\ r.lastError \in RecordedError(r, Last(r.log))
          /\ k < r.maxAttempts =>
               \/ r.st = "sleep" /\ r.attempt = k /\ r.posts = k
               \/ r.st = "fetch" /\ r.attempt = k + 1 /\ r.posts = k + 1
          /\ k >= r.maxAttempts =>
               /\ Done(r)
               /\ ~r.result.success
               /\ r.result.attempts = {r.maxAttempts}
               /\ r.result.error = {r.lastError}

C6_WaitLeadsToNextAttempt ==
  \A c \in DOMAIN calls :
    (calls[c].st = "sleep" /\ calls'[c].st # "sleep") =>
      /\ calls'[c].st = "fetch"
      /\ calls'[c].attempt = calls[c].attempt + 1
      /\ calls'[c].posts = calls[c].posts + 1

C6_TransportFaultRetried == [](C6_FaultState) /\ [][C6_WaitLeadsToNextAttempt]_vars

C6_Witness ==
  \E c \in DOMAIN calls :
    /\ Done(calls[c])
    /\ calls[c].sender = "relay"
    /\ calls[c].maxAttempts = 3
    /\ Len(calls[c].log) = 3
    /\ calls[c].log[1].kind = "fetch failed"
    /\ calls[c].log[2].kind = "not an Error"
    /\ calls[c].log[3].kind = "AbortError"
    /\ calls[c].result.error = {TimeoutError(calls[c].timeoutMs)}

\* C7: in every integration a 429 or 5xx response is retried like a
\* transport failure: while attempts remain under the cap, no delivery
\* function gives up after such a response.
C7_RetryableRejectionRetried ==
  \A c \in DOMAIN calls :
    LET r == calls[c]
        k == Len(r.log)
    IN  (k >= 1 /\ k < Cap(r) /\ IsResponse(Last(r.log))
           /\ RetryableStatus(Last(r.log).status)) =>
          ~Done(r)

\* C8: every result of a delivery call has 1 <= attempts <= maxAttempts and
\* attempts equal to the number of POSTs the call issued, for every retry
\* configuration that can be passed through.
C8_AttemptsCountPosts ==
  \A c \in DOMAIN calls :
    LET r == calls[c]
    IN  (r.sender \in Retrying /\ Done(r)) =>
          \E a \in 1..r.maxAttempts : r.result.attempts = {a} /\ a = r.posts

\* C9: the error field of a result is present if and only if success=false,
\* and a failed result carries the error string recorded by the last attempt
\* made.
C9_ErrorIffFailure ==
  \A c \in DOMAIN calls :
    LET r == calls[c]
    IN  (r.sender \in Retrying /\ Done(r)) =>
          /\ r.result.success <=> r.result.error = Absent
          /\ ~r.result.success =>
               /\ r.log # <<>>
               /\ \E e \in RecordedError(r, Last(r.log)) : r.result.error = {e}

\* C10: a failed result has attempts < maxAttempts only if the last response
\* received was a non-retryable status; when every attempt made ended in a
\* retryable failure (429, 5xx or transport fault) it has
\* attempts = maxAttempts.
C10_EarlyFailureOnlyNonRetryable ==
  \A c \in DOMAIN calls :
    LET r == calls[c]
    IN  (r.sender \in Retrying /\ Done(r) /\ ~r.result.success) =>
          /\ (\E a \in r.result.attempts : a < r.maxAttempts) =>
               /\ r.log # <<>>
               /\ IsResponse(Last(r.log))
               /\ NonRetryableStatus(Last(r.log).status)
          /\ (\A i \in 1..Len(r.log) : RetryableFailure(r.log[i])) =>
               r.result.attempts = {r.maxAttempts}

C10_Witness ==
  \E c \in DOMAIN calls :
    /\ Done(calls[c])
    /\ ~calls[c].result.success
    /\ calls[c].maxAttempts = 3
    /\ calls[c].result.attempts = {2}
    /\ calls[c].log[1] = Outcome("response", 429)
    /\ calls[c].log[2] = Outcome("response", 404)

C12_TimeoutAbortsAttempt ==
  \A c \in DOMAIN calls :
    LET r == calls[c]
        k == Len(r.log)
    IN  (r.sender = "relay" /\ k >= 1) =>
          /\ Last(r.log).kind = "AbortError" =>
               /\ r.lastError = TimeoutError(r.timeoutMs)
               /\ k < r.maxAttempts =>
                    \/ r.st = "sleep" /\ r.attempt = k
                    \/ r.st = "fetch" /\ r.attempt = k + 1 /\ r.posts = k + 1
               /\ k >= r.maxAttempts =>
                    /\ Done(r)
                    /\ ~r.result.success
                    /\ r.result.attempts = {r.maxAttempts}
                    /\ r.result.error = {TimeoutError(r.timeoutMs)}
          /\ \A i \in 1..k : IsResponse(r.log[i]) => i \notin r.timers

C12_Witness ==
  \E c \in DOMAIN calls :
    /\ calls[c].sender = "relay"
    /\ calls[c].st = "fetch"
    /\ calls[c].attempt = 3
    /\ calls[c].log = <<Outcome("response", 500), Outcome("AbortError", 0)>>
    /\ calls[c].lastError = TimeoutError(DefaultTimeoutMs)

\* C13: timeoutMs = 0 means no timeout: with timeoutMs = 0 no attempt of a
\* relay delivery is ever aborted by a timer.
C13_ZeroTimeoutNeverAborts ==
  \A c \in DOMAIN calls :
    LET r == calls[c]
    IN  (r.sender = "relay" /\ Started(r) /\ r.timeoutMs = 0) =>
          \A i \in 1..Len(r.log) : r.log[i].kind # "AbortError"

\* C14: timeouts are per attempt and independent. A step that aborts a
\* request is taken by the timer of the very attempt in flight and by no
\* other timer; a timer left armed by an earlier attempt fires without any
\* effect on the call beyond disarming itself; and neither kind of step
\* touches a concurrently running delivery.
C14_TimerStep ==
  \A c \in DOMAIN calls :
    LET r == calls[c]
        r2 == calls'[c]
    IN  /\ (Len(r2.log) = Len(r.log) + 1 /\ Last(r2.log).kind = "AbortError") =>
             /\ r.st = "fetch"
             /\ r.attempt \in r.timers
             /\ r2.timers \ {r2.attempt} = r.timers \ {r.attempt, r2.attempt}
             /\ \A d \in DOMAIN calls \ {c} : calls'[d] = calls[d]
        /\ (r2.log = r.log /\ r2.timers # r.timers /\ r2.posts = r.posts) =>
             /\ r2 = [r EXCEPT !.timers = r2.timers]
             /\ \A d \in DOMAIN calls \ {c} : calls'[d] = calls[d]
        /\ (r.st = "fetch" /\ r2.log = r.log) => (r2.st = "fetch" /\ r2.attempt = r.attempt)

C14_TimersIndependent == [][C14_TimerStep]_vars

\* the timer of attempt 1 of c1, left armed by a network error, has fired
\* while attempt 2 of c1 and attempt 1 of c2 were in flight
C14_Witness ==
  /\ DOMAIN calls = {"c1", "c2"}
  /\ calls["c1"].sender = "relay"
  /\ calls["c1"].st = "fetch"
  /\ calls["c1"].attempt = 2
  /\ calls["c1"].log = <<Outcome("fetch failed", 0)>>
  /\ calls["c1"].timers = {2}
  /\ calls["c2"].sender = "relay"
  /\ calls["c2"].st = "fetch"
  /\ calls["c2"].timers = {1}

\* C15: every delivery call eventually returns a result, in every
\* integration, even when the remote endpoint never responds, given that
\* timers fire.
C15_EveryCallReturns ==
  (\E c \in DOMAIN calls : Started(calls[c]))
    ~> (\A c \in DOMAIN calls : Started(calls[c]) => Done(calls[c]))

(* ------------------------------- handlers ------------------------------ *)

\* the value of the x-sentinel-signature header of a request
Signature(i) == Lookup(i.headers, SignatureHeader)

\* the secret the handler was created with
Secret == OrDefault(ctx.webhookSecret, "")

\* the handler has taken the request
Handled(i) == i.stage # "idle"

\* verification of the request's signature ran and failed
VerificationFails(i) ==
  Truthy(Signature(i)) /\ ~VerifyWebhookSignature(i.rawBody, OrDefault(Signature(i), ""), Secret)

Responds(i, ok, text) ==
  i.stage = "responded" /\ i.response = {[ok |-> ok, message |-> Plain(text)]}

\* C16: with a webhook secret configured, a request without the
\* x-sentinel-signature header is answered ok=false 'Missing signature
\* header' and one whose verification fails ok=false 'Invalid signature';
\* either way (an empty header value included) the body is not decoded, no
\* handler runs and the delivery function is never called, in that step or
\* any later one: no POST, no retry.
C16_AuthenticationFailureRejected ==
  \A c \in DOMAIN inbound :
    LET i == inbound[c]
    IN  (Truthy(ctx.webhookSecret) /\ Handled(i)) =>
          /\ Signature(i) = Absent => Responds(i, FALSE, "Missing signature header")
          /\ VerificationFails(i) => Responds(i, FALSE, "Invalid signature")
          /\ (~Truthy(Signature(i)) \/ VerificationFails(i)) =>
               /\ i.stage = "responded"
               /\ \A resp \in i.response : ~resp.ok
               /\ ~i.decoded
               /\ i.ran = {}
               /\ calls[c] = Idle

C16_Witness ==
  /\ Truthy(ctx.webhookSecret)
  /\ ctx.url = {TheUrl}
  /\ inbound["c1"].rawBody.valid
  /\ Signature(inbound["c1"]) = {"bad"}
  /\ Responds(inbound["c1"], FALSE, "Invalid signature")

\* the request went past the signature gate: JSON.parse was applied to its
\* body, and a body that decodes was routed (the relay's handler or the
\* router produced the response or started the delivery)
Proceeds(i) ==
  /\ i.rawBody.valid <=> i.decoded
  /\ ~i.rawBody.valid <=> i.stage = "threw"

AuthenticationMessages ==
  {Plain("Missing signature header"), Plain("Invalid signature")}

\* C17: without a webhook secret (none, or an empty one) no signature is
\* looked at: whatever the headers hold, the response is never 'Missing
\* signature header' nor 'Invalid signature', verifyWebhookSignature is not
\* called, and the body is decoded and routed.
C17_NoSecretSkipsVerification ==
  \A c \in DOMAIN inbound :
    LET i == inbound[c]
    IN  (~Truthy(ctx.webhookSecret) /\ Handled(i)) =>
          /\ \A resp \in i.response : resp.message \notin AuthenticationMessages
          /\ ~i.verified
          /\ Proceeds(i)

C17_Witness ==
  /\ ctx.webhookSecret = Absent
  /\ ctx.url = {TheUrl}
  /\ Signature(inbound["c1"]) = {"bad"}
  /\ inbound["c1"].decoded
  /\ inbound["c1"].stage = "responded"
  /\ calls["c1"].posts >= 1

PerEventUrl == {"playerActivity", "moderation", "moderationRoot", "moderationSingle"}

\* the event kind is one the integration has a handler for
Supported(event) == ctx.integration = "relay" \/ event \in Registry(ctx.integration)

\* the destination the configuration gives for the event kind
Destination(event) ==
  IF ctx.integration \in PerEventUrl THEN ctx.urls[event] ELSE ctx.url

\* the handler of the request's event kind was invoked
Invoked(i) == Handled(i) /\ i.decoded /\ Supported(i.rawBody.event)

NotConfiguredText ==
  IF ctx.integration = "relay"
    THEN "Target URL not configured, skipping"
    ELSE "Webhook URL not configured, skipping"

\* C18: in every integration, a handler invoked for a supported event kind
\* whose destination URL is not configured (undefined or empty) answers
\* ok=true with the '... not configured, skipping' message and the delivery
\* function is never called: zero POSTs.
C18_MissingDestinationSkips ==
  \A c \in DOMAIN inbound :
    LET i == inbound[c]
    IN  (Invoked(i) /\ ~Truthy(Destination(i.rawBody.event))) =>
          /\ Responds(i, TRUE, NotConfiguredText)
          /\ calls[c] = Idle

C18_Witness ==
  /\ ctx.integration = "moderation"
  /\ ctx.urls[BAN_CREATED] = {""}
  /\ ctx.urls[MUTE_REMOVED] = {TheUrl}
  /\ inbound["c1"].rawBody.event = BAN_CREATED
  /\ inbound["c1"].ran = {BAN_CREATED}
  /\ Responds(inbound["c1"], TRUE, "Webhook URL not configured, skipping")

\* the configured value of the flag that governs a server-status event kind
FlagOf(event) ==
  CASE event = GAMESERVER_CONNECTED -> ctx.notifyOnConnect
    [] event = GAMESERVER_DISCONNECTED -> ctx.notifyOnDisconnect
    [] event = GAMESERVER_UPDATED -> ctx.notifyOnPlayerCountChange

\* a flag left out of the configuration: on for connect and disconnect,
\* off for update
FlagEnabled(event) ==
  IF FlagOf(event) = Absent THEN event # GAMESERVER_UPDATED ELSE TRUE \in FlagOf(event)

DisabledText(event) ==
  CASE event = GAMESERVER_CONNECTED -> "Connect notifications disabled, skipping"
    [] event = GAMESERVER_DISCONNECTED -> "Disconnect notifications disabled, skipping"
    [] event = GAMESERVER_UPDATED -> "Update notifications disabled, skipping"

\* C19: in the server-status integration with a URL configured, connect and
\* disconnect notifications are on unless set to false and update
\* notifications are off unless set to true; a handler whose flag is off
\* answers ok=true with its skip message and never calls the delivery
\* function (no POST), as for a missing URL; one whose flag is on calls it.
C19_FeatureFlags ==
  \A c \in DOMAIN inbound :
    LET i == inbound[c]
        event == i.rawBody.event
    IN  (ctx.integration = "serverStatus" /\ Invoked(i) /\ Truthy(ctx.url)) =>
          IF FlagEnabled(event)
            THEN calls[c].st # "idle" /\ calls[c].sender = "discord"
            ELSE Responds(i, TRUE, DisabledText(event)) /\ calls[c] = Idle

C19_Witness ==
  /\ ctx.integration = "serverStatus"
  /\ ctx.url = {TheUrl}
  /\ ctx.notifyOnPlayerCountChange = Absent
  /\ ctx.notifyOnConnect = {FALSE}
  /\ inbound["c1"].ran = {GAMESERVER_UPDATED}
  /\ Responds(inbound["c1"], TRUE, "Update notifications disabled, skipping")

\* the relay is configured with at least one pattern and the event kind
\* matches none of them
MatchesNoPattern(event) ==
  /\ ctx.eventPatterns # Absent
  /\ \A ps \in ctx.eventPatterns :
       /\ Len(ps) >= 1
       /\ \A k \in 1..Len(ps) : ~MatchesPattern(event, ps[k])

\* C20: a relay with a target URL and a non-empty eventPatterns list, asked
\* to relay an event kind that matches none of the patterns, answers ok=true
\* with the 'does not match patterns, skipping' message naming the event and
\* never calls sendRelayRequest: no POST.
C20_PatternFilterSkips ==
  \A c \in DOMAIN inbound :
    LET i == inbound[c]
    IN  (/\ ctx.integration = "relay"
         /\ Invoked(i)
         /\ Truthy(ctx.url)
         /\ MatchesNoPattern(i.rawBody.event)) =>
          /\ i.stage = "responded"
          /\ i.response =
               {SuccessResponse(Message("Event does not match patterns, skipping",
                                        {i.rawBody.event}, Absent, Absent, Absent))}
          /\ calls[c] = Idle

C20_Witness ==
  /\ ctx.integration = "relay"
  /\ ctx.url = {TheUrl}
  /\ ctx.eventPatterns = {<<<<"chat", "*">>>>}
  /\ inbound["c1"].rawBody.event = PLAYER_CONNECTED
  /\ inbound["c1"].stage = "responded"
  /\ \A resp \in inbound["c1"].response : resp.ok
  /\ calls["c1"].posts = 0

(* --------------------------------- relay ------------------------------- *)

\* the relay handler reached its pattern filter for the request
Filtered(i) == ctx.integration = "relay" /\ Invoked(i) /\ Truthy(ctx.url)

\* matchesEventPatterns returned true: the handler went on to the delivery
Matched(c) == calls[c] # Idle

\* the event kind starts with the text of the first segment and a dot
StartsWithSegment(event, first) == Len(event) >= 2 /\ event[1] = first

\* C21: matchesEventPatterns gives an answer for every event kind and
\* pattern list (the handler skips or delivers, it never throws there): an
\* absent or empty list matches; a non-empty list matches iff at least one
\* of its patterns matches; the list [k] matches k; and ['chat.*'] matches k
\* iff k starts with 'chat.'.
C21_DefaultAllowAnyPattern ==
  \A c \in DOMAIN inbound :
    LET i == inbound[c]
        k == i.rawBody.event
    IN  Filtered(i) =>
          /\ i.stage \in {"delivering", "responded"}
          /\ (ctx.eventPatterns = Absent \/ ctx.eventPatterns = {<<>>}) => Matched(c)
          /\ \A ps \in ctx.eventPatterns :
               Len(ps) >= 1 => (Matched(c) <=> \E j \in 1..Len(ps) : MatchesPattern(k, ps[j]))
          /\ ctx.eventPatterns = {<<k>>} => Matched(c)
          /\ ctx.eventPatterns = {<<<<"chat", "*">>>>} =>
               (Matched(c) <=> StartsWithSegment(k, "chat"))

C21_Witness ==
  /\ ctx.eventPatterns = {<<<<"chat", "*">>, PLAYER_CONNECTED>>}
  /\ Filtered(inbound["c1"])
  /\ inbound["c1"].rawBody.event = PLAYER_CONNECTED
  /\ calls["c1"].posts = 1

(* ------------------------------ chat bridge ---------------------------- *)

\* the chat.message handler reached its content filters for the request
ChatFiltered(i) == ctx.integration = "chatBridge" /\ Invoked(i) /\ Truthy(ctx.url)

\* no channel filter, an empty one, or one that lists the channel
ChannelPasses(channel) ==
  \A f \in ctx.channelFilter : Len(f) = 0 \/ \E j \in 1..Len(f) : f[j] = channel

\* no prefix, an empty one, or one the text starts with
PrefixPasses(message) ==
  \A p \in ctx.messagePrefix :
    Len(p) = 0 \/ (Len(message) >= Len(p) /\ SubSeq(message, 1, Len(p)) = p)

\* C22: the chat bridge starts a delivery exactly for the messages whose
\* channel passes the channel filter and whose text passes the prefix
\* filter; a message stopped by either filter is answered ok=true with that
\* filter's skip message and nothing is posted.
C22_ChatFilters ==
  \A c \in DOMAIN inbound :
    LET i == inbound[c]
        channel == i.rawBody.channel
        message == i.rawBody.message
    IN  ChatFiltered(i) =>
          /\ calls[c] # Idle <=> (ChannelPasses(channel) /\ PrefixPasses(message))
          /\ ~ChannelPasses(channel) =>
               /\ i.stage = "responded"
               /\ i.response =
                    {SuccessResponse(Message("Channel filtered out, skipping", {channel},
                                             Absent, Absent, Absent))}
          /\ (ChannelPasses(channel) /\ ~PrefixPasses(message)) =>
               Responds(i, TRUE, "Message prefix not matched, skipping")

C22_Witness ==
  /\ ctx.channelFilter = {<<<<"global">>>>}
  /\ ctx.messagePrefix = {<<"!">>}
  /\ ChatFiltered(inbound["c1"])
  /\ inbound["c1"].rawBody.channel = <<"global">>
  /\ inbound["c1"].rawBody.message = <<"hi", "!">>
  /\ Responds(inbound["c1"], TRUE, "Message prefix not matched, skipping")
  /\ calls["c1"].posts = 0

\* the relay handler passed its filters and called sendRelayRequest
Relayed(c) == Filtered(inbound[c]) /\ calls[c] # Idle

\* C23: the body the relay hands to sendRelayRequest is the decoded envelope
\* itself unless config.transformPayload is true (absent counts as false);
\* with it true the body has exactly the fields source, event, timestamp,
\* organizationId, userId and data, source being 'sentinel' and the others
\* the envelope's; the decoded envelope is the same after the call.
C23_TransformPayload ==
  \A c \in DOMAIN inbound :
    LET i == inbound[c]
        input == Parse(i.rawBody)
    IN  Relayed(c) =>
          /\ i.payload = input
          /\ IF ctx.transformPayload = {TRUE}
               THEN /\ DOMAIN i.outBody =
                         {"source", "event", "timestamp", "organizationId", "userId", "data"}
                    /\ i.outBody["source"] = {<<"sentinel">>}
                    /\ \A k \in DOMAIN i.outBody \ {"source"} :
                         i.outBody[k] = IF k \in DOMAIN input THEN input[k] ELSE {}
               ELSE i.outBody = input

C23_Witness ==
  /\ ctx.transformPayload = {TRUE}
  /\ Relayed("c1")
  /\ inbound["c1"].rawBody.extra = {"more"}
  /\ inbound["c1"].rawBody.userId = {}
  /\ "extra" \notin DOMAIN inbound["c1"].outBody
  /\ inbound["c1"].outBody["userId"] = {}
  /\ inbound["c1"].outBody["event"] = {CHAT_MESSAGE}

(* ------------------------- delivery result mapping --------------------- *)

\* the handler answered with the outcome of a finished delivery
Mapped(c) == inbound[c].stage = "responded" /\ calls[c].st = "done"

\* C24: in every handler, the response to a finished delivery is ok=true
\* when the delivery succeeded, its message naming the attempt count exactly
\* when more than one attempt was made, and ok=false when it failed, its
\* message holding the attempt count and the last recorded error.
C24_ResultMapping ==
  \A c \in DOMAIN inbound :
    Mapped(c) =>
      LET res == calls[c].result
      IN  \A resp \in inbound[c].response :
            IF res.success
              THEN /\ resp.ok
                   /\ resp.message.attempts # Absent <=> \E a \in res.attempts : a > 1
                   /\ resp.message.attempts # Absent => resp.message.attempts = res.attempts
              ELSE /\ ~resp.ok
                   /\ resp.message.attempts # Absent
                   /\ resp.message.attempts = res.attempts
                   /\ resp.message.error = res.error

(* ---------------------------- outbound headers ------------------------- *)

\* the headers of the POSTs of a call
Posted(c) == PostHeaders(calls[c].sender, inbound[c].outHeaders)

\* C25: every POST carries Content-Type: application/json, whatever inbound
\* headers are forwarded and whatever customHeaders, secretHeader and
\* secretValue the configuration holds.
C25_ContentTypeJson ==
  \A c \in DOMAIN inbound :
    (inbound[c].stage # "idle" /\ calls[c].posts >= 1) =>
      /\ "Content-Type" \in DOMAIN Posted(c)
      /\ Posted(c)["Content-Type"] = "application/json"

(* -------------------------------- faults ------------------------------- *)

\* C26: no invocation of handleWebhook ends in a rejection: whatever the raw
\* body and the headers, no fault leaves the handler, and an invocation that
\* has ended holds a response with ok and message.
C26_NoFaultEscapes ==
  \A c \in DOMAIN inbound :
    /\ inbound[c].stage # "threw"
    /\ inbound[c].stage = "responded" => Cardinality(inbound[c].response) = 1

(* -------------------------------- routing ------------------------------ *)

\* the integration dispatches through a router
Routed == ctx.integration # "relay"

\* the family of event kinds an integration registers handlers for
Family ==
  CASE ctx.integration = "serverStatus" -> "gameserver"
    [] ctx.integration = "chatBridge" -> "chat"
    [] ctx.integration = "playerActivity" -> "player"
    [] OTHER -> "moderation"

\* the request decoded to an event kind outside the integration's registry
Unregistered(i) ==
  Routed /\ Handled(i) /\ i.decoded /\ i.rawBody.event[1] # Family

\* C27: an event kind without a handler in the integration's registry
\* ('foo.bar', or a kind of another integration) is answered ok=true with the
\* 'no handler' message naming the kind; no handler runs and the delivery
\* function is never called: no POST.
C27_UnregisteredKind ==
  \A c \in DOMAIN inbound :
    LET i == inbound[c]
    IN  Unregistered(i) =>
          /\ i.stage = "responded"
          /\ i.response =
               {SuccessResponse(Message("No handler registered for event",
                                        {i.rawBody.event}, Absent, Absent, Absent))}
          /\ i.ran = {}
          /\ calls[c] = Idle

C27_Witness ==
  /\ ctx.integration = "serverStatus"
  /\ ctx.url = {TheUrl}
  /\ inbound["c1"].rawBody.event = <<"foo", "bar">>
  /\ inbound["c1"].stage = "responded"
  /\ \A resp \in inbound["c1"].response : resp.ok
  /\ inbound["c1"].ran = {}
  /\ calls["c1"].posts = 0

\* the attempts the one delivery of an inbound call may make: the relay's
\* config.maxRetries (3 when absent), 3 for a retrying Discord sender, 1 for
\* the one that posts once
DeliveryCap ==
  CASE ctx.integration = "relay" ->
         IF ctx.maxRetries = Absent THEN 3 ELSE CHOOSE n \in ctx.maxRetries : TRUE
    [] ctx.integration = "moderationSingle" -> 1
    [] OTHER -> 3

\* C28: one inbound call runs at most one handler, the one of its event
\* kind, and starts at most one delivery, on the integration's one delivery
\* function; the POSTs it causes never exceed that delivery's maxAttempts.
C28_NoFanOut ==
  \A c \in DOMAIN inbound :
    LET i == inbound[c]
    IN  Handled(i) =>
          /\ Cardinality(i.ran) <= 1
          /\ i.ran \subseteq {i.rawBody.event}
          /\ calls[c].posts <= DeliveryCap
          /\ Len(calls[c].log) <= DeliveryCap
          /\ calls[c] # Idle =>
               /\ calls[c].sender = (IF ctx.integration = "relay" THEN "relay"
                                     ELSE IF ctx.integration = "moderationSingle"
                                            THEN "moderation" ELSE "discord")
               /\ (Routed => i.ran = {i.rawBody.event})

C28_Witness ==
  /\ ctx.integration = "relay"
  /\ ctx.maxRetries = {2}
  /\ inbound["c1"].stage = "responded"
  /\ calls["c1"].st = "done"
  /\ calls["c1"].posts = 2
  /\ ~calls["c1"].result.success

(* -------------------------- concurrent deliveries ---------------------- *)

\* the call as the delivery function leaves it at its first await
Fresh(r) ==
  LoopHead([Idle EXCEPT !.sender = r.sender, !.maxAttempts = r.maxAttempts,
                        !.baseDelayMs = r.baseDelayMs, !.timeoutMs = r.timeoutMs,
                        !.attempt = 1])

\* the call once a pending sleep is over
Awake(r) == IF r.st = "sleep" THEN NextAttempt(r) ELSE r

\* the call run alone against the outcomes of its own requests
RECURSIVE Alone(_, _)
Alone(r, outcomes) ==
  IF outcomes = <<>> \/ r.st = "done"
    THEN r
    ELSE LET r1 == Awake(r)
             o == Head(outcomes)
             r2 == CASE o.kind = "response" -> OnResponse(r1, o.status, "body")
                     [] o.kind = "AbortError" -> RelayCatch(r1, TRUE, "AbortError")
                     [] OTHER -> OnThrow(r1, o.kind)
         IN  Alone(r2, Tail(outcomes))

\* C29: with two deliveries in flight on the same handler instance, under
\* every interleaving each call's attempt counter, last error, position and
\* final result are those of the same call run alone against the outcomes
\* of its own requests.
C29_CallsIndependent ==
  \A c \in DOMAIN calls :
    Started(calls[c]) =>
      LET here == Awake(calls[c])
          alone == Awake(Alone(Fresh(calls[c]), calls[c].log))
      IN  /\ here.st = alone.st
          /\ here.attempt = alone.attempt
          /\ here.lastError = alone.lastError
          /\ here.lastStatusCode = alone.lastStatusCode
          /\ here.result = alone.result
          /\ here.posts = alone.posts

C29_Witness ==
  /\ calls["c1"].st = "fetch"
  /\ calls["c1"].sender = "relay"
  /\ calls["c1"].attempt = 2
  /\ calls["c1"].lastError = HttpError(500, "body")
  /\ calls["c2"].st = "fetch"
  /\ calls["c2"].sender = "discord"
  /\ calls["c2"].attempt = 2
  /\ calls["c2"].lastError = ThrownError("fetch failed")

(* ------------------------------ frame effect --------------------------- *)

\* the caller's header map is, after the call, as it was passed in
C30_HeadersKept ==
  \A c \in DOMAIN inbound :
    Handled(inbound[c]) => inbound[c].headersAfter = inbound[c].headers

\* no step changes the handler's configuration and secret
C30_ContextKept == ctx' = ctx

SameOptions(r, q) ==
  /\ r.sender = q.sender
  /\ r.maxAttempts = q.maxAttempts
  /\ r.baseDelayMs = q.baseDelayMs
  /\ r.timeoutMs = q.timeoutMs

\* C31: two deliveries with the same options whose attempts met the same
\* sequence of outcomes have waited the same waits, stand at the same point
\* and, once returned, hold the same result: nothing but the options and
\* the outcomes (no jitter) enters the waits or the result.
C31_Deterministic ==
  \A c, d \in DOMAIN calls :
    (/\ Started(calls[c])
     /\ Started(calls[d])
     /\ SameOptions(calls[c], calls[d])
     /\ calls[c].log = calls[d].log) =>
      /\ calls[c].waits = calls[d].waits
      /\ Awake(calls[c]).st = Awake(calls[d]).st
      /\ Awake(calls[c]).attempt = Awake(calls[d]).attempt
      /\ calls[c].result = calls[d].result

C31_Witness ==
  /\ SameOptions(calls["c1"], calls["c2"])
  /\ calls["c1"].sender = "relay"
  /\ calls["c1"].log = calls["c2"].log
  /\ Len(calls["c1"].log) = 2
  /\ calls["c1"].log[1].kind = "fetch failed"
  /\ calls["c1"].waits = <<DefaultBaseDelayMs>>
  /\ Done(calls["c1"])
  /\ Done(calls["c2"])
  /\ calls["c1"].timers # calls["c2"].timers


\* C32: the schedule the comment in sendDiscordWebhook gives, '0, 1s, 2s':
\* with the default baseDelayMs no wait before attempt 2, 1000 ms before
\* attempt 3, 2000 ms before attempt 4 (waits are recorded in half
\* milliseconds and only when taken).
C32_CommentSchedule ==
  \A c \in DOMAIN calls :
    LET r == calls[c]
    IN  (r.sender = "discord" /\ r.baseDelayMs = DefaultBaseDelayMs /\ r.st = "fetch") =>
          r.waits = [k \in 1..(r.attempt - 2) |-> 2 * DefaultBaseDelayMs * 2^(k - 1)]


\* the request passed the signature gate or the gate was not applied
PastGate(i) ==
  ~Gated(ctx) \/ (Truthy(Signature(i)) /\ ~VerificationFails(i))

\* C33: a body that is not JSON and that passed or skipped the signature
\* gate leaves handleWebhook as an uncaught fault: no response, nothing
\* decoded, no handler run, no POST; with a secret configured and the
\* signature missing or invalid the same body is answered with the
\* authentication failure instead, the check preceding JSON.parse.
C33_MalformedBodyFaults ==
  \A c \in DOMAIN inbound :
    LET i == inbound[c]
    IN  (Handled(i) /\ ~i.rawBody.valid) =>
          /\ PastGate(i) =>
               /\ i.stage = "threw"
               /\ i.response = Absent
               /\ ~i.decoded
               /\ i.ran = {}
               /\ calls[c] = Idle
          /\ (Gated(ctx) /\ ~Truthy(Signature(i))) =>
               Responds(i, FALSE, "Missing signature header")
          /\ (Gated(ctx) /\ VerificationFails(i)) =>
               Responds(i, FALSE, "Invalid signature")
          /\ ~PastGate(i) => i.stage # "threw" /\ calls[c] = Idle

\* a signed malformed body that verified, then faulted in JSON.parse
C33_Witness ==
  /\ Gated(ctx)
  /\ ~inbound["c1"].rawBody.valid
  /\ Signature(inbound["c1"]) = {GoodSignature}
  /\ inbound["c1"].verified
  /\ inbound["c1"].stage = "threw"
  /\ inbound["c1"].response = Absent


\* the status of the most recent attempt that received an HTTP response
MostRecentStatus(log) ==
  LET answered == {k \in 1..Len(log) : IsResponse(log[k])}
  IN  IF answered = {} THEN Absent
      ELSE {log[CHOOSE k \in answered : \A j \in answered : j <= k].status}

SentinelNames ==
  {"x-sentinel-signature", "x-sentinel-event", "X-Sentinel-Signature", "X-Sentinel-Event"}

\* the inbound headers the configuration lets through
Forwardable(i) ==
  IF ctx.includeOriginalHeaders \in {Absent, {TRUE}}
    THEN DOMAIN i.headers \cap SentinelNames ELSE {}

\* the names customHeaders sets
CustomNames == UNION {DOMAIN h : h \in ctx.customHeaders}

\* the name of the secret header, when name and value are both non-empty
SecretNames ==
  IF ctx.secretHeader \notin {Absent, {""}} /\ ctx.secretValue \notin {Absent, {""}}
    THEN ctx.secretHeader ELSE {}

\* C35: the headers of a relayed POST are the default Content-Type, the
\* inbound headers whose name starts with 'x-sentinel-' in any casing when
\* includeOriginalHeaders is true or absent, the customHeaders, and the
\* secret header when secretHeader and secretValue are both non-empty, and
\* no others; under one name the secret wins over customHeaders, which win
\* over a forwarded header and over the default Content-Type.
C35_HeaderPrecedence ==
  \A c \in DOMAIN inbound :
    LET i == inbound[c]
        H == i.outHeaders
    IN  Relayed(c) =>
          /\ DOMAIN H = {"Content-Type"} \cup Forwardable(i) \cup CustomNames \cup SecretNames
          /\ \A k \in DOMAIN H :
               H[k] = IF k \in SecretNames THEN OrDefault(ctx.secretValue, "")
                      ELSE IF k \in CustomNames THEN OrDefault(ctx.customHeaders, NoHeaders)[k]
                      ELSE IF k \in Forwardable(i) THEN i.headers[k]
                      ELSE "application/json"

\* an inbound x-sentinel-event overridden by customHeaders, itself overridden
\* by the secret header of the same name
C35_Witness ==
  /\ Relayed("c1")
  /\ ctx.includeOriginalHeaders = Absent
  /\ ctx.customHeaders = {[n \in {"x-sentinel-event"} |-> "custom"]}
  /\ ctx.secretHeader = {"x-sentinel-event"}
  /\ ctx.secretValue = {"token"}
  /\ DOMAIN inbound["c1"].headers = {"x-sentinel-event", "Authorization"}
  /\ inbound["c1"].outHeaders =
       [n \in {"Content-Type", "x-sentinel-event"} |->
          IF n = "Content-Type" THEN "application/json" ELSE "token"]


(* ------------------------------ empty secret --------------------------- *)

\* what handleWebhook does with the request of i under a handler created
\* without webhookSecret
Unsecured(i) == HandleWebhook([ctx EXCEPT !.webhookSecret = Absent], i.rawBody, i.headers)

\* C36: a webhookSecret equal to '' behaves exactly like an absent one: no
\* signature is looked at, no request is answered with an authentication
\* failure, every request is decoded and routed, and what comes of it is
\* what the same request yields on a handler without secret.
C36_EmptySecretIsNoSecret ==
  \A c \in DOMAIN inbound :
    LET i == inbound[c]
        o == Unsecured(i)
    IN  (ctx.webhookSecret = {""} /\ Handled(i)) =>
          /\ \A resp \in i.response : resp.message \notin AuthenticationMessages
          /\ ~i.verified
          /\ Proceeds(i)
          /\ i.decoded = o.decoded
          /\ i.ran = o.ran
          /\ i.payload = o.payload
          /\ i.outHeaders = o.outHeaders
          /\ i.outBody = o.outBody
          /\ o.kind = "throw" <=> i.stage = "threw"
          /\ o.kind = "response" => i.stage = "responded" /\ i.response = o.response
          /\ o.kind = "deliver" <=> calls[c] # Idle

\* an unsigned request delivered by a handler whose secret is ''
C36_Witness ==
  /\ ctx.webhookSecret = {""}
  /\ Signature(inbound["c1"]) = Absent
  /\ inbound["c1"].decoded
  /\ inbound["c1"].stage = "responded"
  /\ calls["c1"].st = "done"
  /\ calls["c1"].posts >= 1


(* ------------------------------ exact header key ----------------------- *)

\* the request holds a non-empty value under the exact key
\* 'x-sentinel-signature'
ExactlySigned(i) ==
  "x-sentinel-signature" \in DOMAIN i.headers /\ i.headers["x-sentinel-signature"] # ""

\* C37: the signature is read under the exact key 'x-sentinel-signature':
\* with a secret configured, a request whose correct signature sits under
\* another casing of the name ('X-Sentinel-Signature'), or whose signature
\* is the empty string, is answered ok=false 'Missing signature header';
\* verifyWebhookSignature is not called, nothing is decoded, no handler runs
\* and no POST is issued.
C37_ExactSignatureKey ==
  \A c \in DOMAIN inbound :
    LET i == inbound[c]
    IN  (ctx.webhookSecret \notin {Absent, {""}} /\ Handled(i) /\ ~ExactlySigned(i)) =>
          /\ Responds(i, FALSE, "Missing signature header")
          /\ ~i.verified
          /\ ~i.decoded
          /\ i.ran = {}
          /\ calls[c] = Idle

\* the correct signature under 'X-Sentinel-Signature' on a valid body
C37_Witness ==
  /\ ctx.webhookSecret = {TheSecret}
  /\ ctx.url = {TheUrl}
  /\ inbound["c1"].rawBody.valid
  /\ inbound["c1"].headers = [n \in {"X-Sentinel-Signature"} |-> GoodSignature]
  /\ Responds(inbound["c1"], FALSE, "Missing signature header")


(* --------------------------- order of the checks ----------------------- *)

\* the response is a successful one whose message starts with this text
Skips(i, text) ==
  /\ i.stage = "responded"
  /\ \E resp \in i.response : resp.ok /\ resp.message.text = text

\* C38: the skip conditions are evaluated in a fixed order and the first
\* that applies gives the response. Relay: signature gate, decoding, target
\* URL, event patterns. Server status: URL, then the feature flag. Chat
\* bridge: URL, then the channel filter, then the prefix filter. So a request
\* with a missing URL and also a disabled flag or a non-matching filter is
\* answered '... not configured, skipping'.
C38_SkipOrder ==
  \A c \in DOMAIN inbound :
    LET i == inbound[c]
        b == i.rawBody
        url == ctx.url \notin {Absent, {""}}
    IN  Handled(i) =>
          /\ ctx.integration = "relay" =>
               /\ ~PastGate(i) =>
                    /\ i.stage = "responded"
                    /\ \A resp \in i.response :
                         ~resp.ok /\ resp.message \in AuthenticationMessages
               /\ (PastGate(i) /\ ~b.valid) => i.stage = "threw"
               /\ (PastGate(i) /\ b.valid /\ ~url) =>
                    Responds(i, TRUE, "Target URL not configured, skipping")
               /\ (PastGate(i) /\ b.valid /\ url /\ MatchesNoPattern(b.event)) =>
                    Skips(i, "Event does not match patterns, skipping")
          /\ (ctx.integration = "serverStatus" /\ Invoked(i)) =>
               /\ ~url => Responds(i, TRUE, "Webhook URL not configured, skipping")
               /\ (url /\ ~FlagEnabled(b.event)) => Responds(i, TRUE, DisabledText(b.event))
          /\ (ctx.integration = "chatBridge" /\ Invoked(i)) =>
               /\ ~url => Responds(i, TRUE, "Webhook URL not configured, skipping")
               /\ (url /\ ~ChannelPasses(b.channel)) =>
                    Skips(i, "Channel filtered out, skipping")
               /\ (url /\ ChannelPasses(b.channel) /\ ~PrefixPasses(b.message)) =>
                    Responds(i, TRUE, "Message prefix not matched, skipping")

\* a server-status request with no URL and the feature flag off
C38_Witness ==
  /\ ctx.integration = "serverStatus"
  /\ ctx.url = Absent
  /\ ctx.notifyOnConnect = {FALSE}
  /\ inbound["c1"].rawBody.event = GAMESERVER_CONNECTED
  /\ inbound["c1"].ran = {GAMESERVER_CONNECTED}
  /\ Responds(inbound["c1"], TRUE, "Webhook URL not configured, skipping")

====
